---- MODULE Spec2Model ----
(***************************************************************************)
(* Model of src/ocr-service/main.py: the two recognition handlers of the  *)
(* AIBOS Tesseract OCR service, POST /ocr (perform_ocr) and                *)
(* POST /ocr-with-layout (ocr_with_layout).                                *)
(*                                                                         *)
(* Conventions.                                                            *)
(*  - A Python str is a sequence of characters; a character is a one-      *)
(*    element TLA+ string, or "U+XXXX" for a character outside ASCII.      *)
(*  - Python lists are sequences; Python index i is TLA+ index i+1.        *)
(*  - A float with two decimals is the integer number of hundredths        *)
(*    (95.67 is 9567); an exact quotient is a record [num, den].           *)
(*  - An exception is a record [ok |-> FALSE, error |-> <message>].        *)
(*  - The external collaborators (upload stream, pdf2image, PIL,           *)
(*    pytesseract) are modelled at the call the handler makes: their       *)
(*    answers are drawn from small catalogues.                             *)
(***************************************************************************)
EXTENDS Integers, Sequences, FiniteSets, TLC

\* ------------------------------------------------------------------ bounds
MaxTokens == 3      \* longest structured result given to the layout shaper
MaxConfs  == 8      \* longest confidence list given to the averaging
MaxChars  == 3      \* longest plain text given to the metadata flags

\* -------------------------------------------------------- program constants
Sentinel == -1      \* "-1 values which mean no text detected"

PdfContentType == "application/pdf"
PsmConfig      == "--psm 1"
FirstPage      == 1
LastPage       == 1

\* ------------------------------------------------------------- characters
\* str.isspace(): what str.strip() removes at both ends.
Whitespace == {" ", "\n", "\t", "U+00A0"}

\* The ten ASCII digits.
AsciiDigits == {"0", "1", "2", "3", "4", "5", "6", "7", "8", "9"}

\* str.isdigit() holds of every character of Unicode Numeric_Type Digit or
\* Decimal: the ASCII digits, and also SUPERSCRIPT TWO (U+00B2),
\* ARABIC-INDIC DIGIT THREE (U+0663), FULLWIDTH DIGIT ONE (U+FF11), ...
OtherDigits == {"U+00B2", "U+0663", "U+FF11"}

IsDigit(c) == c \in AsciiDigits \cup OtherDigits

\* '$', POUND SIGN, EURO SIGN, YEN SIGN
CurrencyChars == {"$", "U+00A3", "U+20AC", "U+00A5"}

RECURSIVE LStrip(_)
LStrip(s) ==
    IF s # <<>> /\ Head(s) \in Whitespace THEN LStrip(Tail(s)) ELSE s

RECURSIVE RStrip(_)
RStrip(s) ==
    IF s # <<>> /\ s[Len(s)] \in Whitespace
    THEN RStrip(SubSeq(s, 1, Len(s) - 1))
    ELSE s

\* str.strip()
Strip(s) == RStrip(LStrip(s))

\* any(c.isdigit() for c in text)
HasNumbersAll(text) == \A i \in DOMAIN text : IsDigit(text[i])

HasNumbers(text) == \E i \in DOMAIN text : IsDigit(text[i])

\* any(c in '$...' for c in text)
HasCurrency(text) == \E i \in DOMAIN text : text[i] \in CurrencyChars

\* len(text.split()): the maximal runs of non-whitespace characters
WordCount(text) ==
    Cardinality({i \in DOMAIN text :
        /\ text[i] \notin Whitespace
        /\ (i = 1 \/ text[i - 1] \in Whitespace)})

\* len(text.split('\n'))
LineCount(text) == 1 + Cardinality({i \in DOMAIN text : text[i] = "\n"})

\* ------------------------------------------------------ average confidence
RECURSIVE Sum(_)
Sum(s) == IF s = <<>> THEN 0 ELSE Head(s) + Sum(Tail(s))

KeepConfPositive(c) == c > 0

\* the test of the comprehension [c for c in data['conf'] if c != -1]
KeepConf(c) == c # Sentinel

Confidences(conf) == SelectSeq(conf, KeepConf)

\* sum(confidences) / len(confidences) if confidences else 0
AvgConfidence(conf) ==
    LET confidences == Confidences(conf)
    IN  IF confidences # <<>>
        THEN [num |-> Sum(confidences), den |-> Len(confidences)]
        ELSE [num |-> 0, den |-> 1]

\* Truncation to two decimals (what round() is not).
Truncate2(q) == (100 * q.num) \div q.den

\* round(avg_confidence, 2) for avg_confidence >= 0, in hundredths: the
\* nearest hundredth. An exact tie needs q = m/200 with m odd; for fewer than
\* 40 confidences such a mean is k/8, exactly representable in binary, and
\* round() then takes the even neighbour.
Round2(q) ==
    LET n   == 100 * q.num
        fl  == n \div q.den
        rem == n % q.den
    IN  IF 2 * rem < q.den THEN fl
        ELSE IF 2 * rem > q.den THEN fl + 1
        ELSE IF fl % 2 = 0 THEN fl ELSE fl + 1

RoundConfidenceTrunc(avg_confidence) == Truncate2(avg_confidence)

RoundConfidence(avg_confidence) == Round2(avg_confidence)

\* ------------------------------------------------------------------ images
\* image.size
ImageSize(image) ==
    IF image = "imgA" THEN <<640, 480>> ELSE <<800, 600>>

\* --------------------------------------------------- /ocr response content
\* The content of the JSONResponse of perform_ocr.
ShapeAggregate(text, data, image) ==
    LET avg_confidence == AvgConfidence(data.conf)
        has_numbers    == HasNumbers(text)
        has_currency   == HasCurrency(text)
    IN  [ok |-> TRUE,
         content |->
           [success    |-> TRUE,
            text       |-> text,
            confidence |-> RoundConfidence(avg_confidence),
            method     |-> "tesseract",
            metadata   |->
              [char_count   |-> Len(text),
               word_count   |-> WordCount(text),
               line_count   |-> LineCount(text),
               has_numbers  |-> has_numbers,
               has_currency |-> has_currency,
               image_size   |-> ImageSize(image)]]]

\* ------------------------------------------ /ocr-with-layout response content
IndexError == [ok |-> FALSE, error |-> "list index out of range"]

KeepTokenOr(conf, text) == conf # Sentinel \/ Strip(text) # <<>>

\* data['conf'][i] != -1 and data['text'][i].strip()
KeepToken(conf, text) == conf # Sentinel /\ Strip(text) # <<>>

EntryStripped(data, i) ==
    [text       |-> Strip(data.text[i]),
     confidence |-> data.conf[i],
     bbox       |-> [left   |-> data.left[i],
                     top    |-> data.top[i],
                     width  |-> data.width[i],
                     height |-> data.height[i]],
     level      |-> data.level[i]]

\* the dict appended for index i
Entry(data, i) ==
    [text       |-> data.text[i],
     confidence |-> data.conf[i],
     bbox       |-> [left   |-> data.left[i],
                     top    |-> data.top[i],
                     width  |-> data.width[i],
                     height |-> data.height[i]],
     level      |-> data.level[i]]

\* for i in range(len(data['text'])): ...; a read past the end of a list
\* raises IndexError. conf[i] is read first; the other lists are read only
\* when the token is kept.
RECURSIVE LayoutLoop(_, _, _)
LayoutLoop(data, i, results) ==
    IF i > Len(data.text)
    THEN [ok |-> TRUE, results |-> results, iterated |-> i - 1]
    ELSE IF i > Len(data.conf) THEN IndexError
    ELSE IF KeepToken(data.conf[i], data.text[i])
         THEN IF \/ i > Len(data.left)  \/ i > Len(data.top)
                 \/ i > Len(data.width) \/ i > Len(data.height)
                 \/ i > Len(data.level)
              THEN IndexError
              ELSE LayoutLoop(data, i + 1, Append(results, Entry(data, i)))
         ELSE LayoutLoop(data, i + 1, results)

\* The content of the JSONResponse of ocr_with_layout.
ShapeLayout(data) ==
    LET loop == LayoutLoop(data, 1, <<>>)
    IN  IF loop.ok
        THEN [ok |-> TRUE,
              iterated |-> loop.iterated,
              content |->
                [success     |-> TRUE,
                 results     |-> loop.results,
                 method      |-> "tesseract-layout",
                 total_words |-> Len(loop.results)]]
        ELSE loop

\* ------------------------------------------------------------ collaborators
\* Uploaded bytes: what they hold. A PNG holds one image; a PDF holds its
\* pages, one image each; anything else decodes as neither.
Png(img)   == [format |-> "png", pages |-> <<img>>]
Pdf(pages) == [format |-> "pdf", pages |-> pages]
Garbage    == [format |-> "garbage", pages |-> <<>>]

BytesCatalogue ==
    {Png("imgA"), Pdf(<<>>), Pdf(<<"imgA">>), Pdf(<<"imgA", "imgB">>),
     Pdf(<<"imgB", "imgA">>), Garbage}

ContentTypes == {PdfContentType, "image/png", "application/octet-stream"}

FileNames == {"scan.png", "invoice.pdf"}

\* UploadFile: filename, content_type and the bytes read() returns
Uploads ==
    [filename : FileNames, content_type : ContentTypes, bytes : BytesCatalogue]

Min(a, b) == IF a < b THEN a ELSE b

\* pdf2image.convert_from_bytes(file_bytes, first_page=f, last_page=l): the
\* images of pages f..l of the document; raises on bytes that are no PDF.
ConvertFromBytes(bytes, first_page, last_page) ==
    IF bytes.format = "pdf"
    THEN [ok |-> TRUE,
          images |-> SubSeq(bytes.pages, first_page,
                            Min(last_page, Len(bytes.pages)))]
    ELSE [ok |-> FALSE, error |-> "Unable to get page count"]

\* PIL.Image.open(io.BytesIO(file_bytes)); raises on bytes that are no image.
ImageOpen(bytes) ==
    IF bytes.format = "png"
    THEN [ok |-> TRUE, image |-> bytes.pages[1]]
    ELSE [ok |-> FALSE, error |-> "cannot identify image file"]

\* One token of the engine's structured output. The kinds differ in every
\* field, so an entry mixing two tokens is no token.
TokWord    == [text |-> <<"a", "7">>, conf |-> 96,
               left |-> 10, top |-> 20, width |-> 30, height |-> 40, level |-> 5]
TokPadded  == [text |-> <<" ", "a", " ">>, conf |-> 0,
               left |-> 11, top |-> 21, width |-> 31, height |-> 41, level |-> 4]
TokBlank   == [text |-> <<" ", "\n">>, conf |-> 95,
               left |-> 12, top |-> 22, width |-> 32, height |-> 42, level |-> 3]
TokPage    == [text |-> <<>>, conf |-> Sentinel,
               left |-> 13, top |-> 23, width |-> 33, height |-> 43, level |-> 1]
TokGhost   == [text |-> <<"a">>, conf |-> Sentinel,
               left |-> 14, top |-> 24, width |-> 34, height |-> 44, level |-> 2]

TokenKinds == {TokWord, TokPadded, TokBlank, TokPage, TokGhost}

\* pytesseract.image_to_data(..., output_type=Output.DICT): parallel lists
Arrays(toks) ==
    [text   |-> [i \in 1..Len(toks) |-> toks[i].text],
     conf   |-> [i \in 1..Len(toks) |-> toks[i].conf],
     left   |-> [i \in 1..Len(toks) |-> toks[i].left],
     top    |-> [i \in 1..Len(toks) |-> toks[i].top],
     width  |-> [i \in 1..Len(toks) |-> toks[i].width],
     height |-> [i \in 1..Len(toks) |-> toks[i].height],
     level  |-> [i \in 1..Len(toks) |-> toks[i].level]]

DropLast(s) == IF s = <<>> THEN s ELSE SubSeq(s, 1, Len(s) - 1)

\* A result whose lists are not of one length: one list is a cell short.
Short(data, which) ==
    CASE which = "text" -> [data EXCEPT !.text = DropLast(@)]
      [] which = "conf" -> [data EXCEPT !.conf = DropLast(@)]
      [] which = "left" -> [data EXCEPT !.left = DropLast(@)]
      [] OTHER          -> data

SeqsUpTo(S, n) == UNION {[1..k -> S] : k \in 0..n}

\* What the engine may answer in a request.
TextCatalogue == {<<"a", "7", "\n">>, <<"a", " ", "$">>}

DataCatalogue ==
    {Arrays(<<TokWord, TokBlank, TokPadded>>),
     Short(Arrays(<<TokWord, TokPadded>>), "conf"),
     Arrays(<<TokPage>>)}

EngineError == "tesseract failed"
ReadError   == "read failed"

\* ------------------------------------------------------------- responses
\* JSONResponse(content)
JSONResponse(content) == [status_code |-> 200, content |-> content]

\* HTTPException(status_code=500, detail=...)
HTTPException(status_code, detail) ==
    [status_code |-> status_code, detail |-> detail]

ErrorDetailPartial(ep, e, filename, partial) ==
    [error |-> e, method |-> "tesseract", file |-> filename, text |-> partial]

\* the detail of the except clause of each handler; `partial` is the text
\* recognized before the failure, which the detail does not carry
ErrorDetail(ep, e, filename, partial) ==
    IF ep = "ocr"
    THEN [error |-> e, method |-> "tesseract", file |-> filename]
    ELSE [error |-> e]

\* ------------------------------------------------------------------- state
Reqs == {"r1", "r2"}            \* requests in flight at once

Endpoints == {"ocr", "layout"}  \* POST /ocr, POST /ocr-with-layout

VARIABLES
    pc,          \* where each request's handler is
    endpoint,    \* the route of the request
    file,        \* the UploadFile of the request
    file_bytes,  \* local file_bytes
    image,       \* local image
    text,        \* local text (perform_ocr)
    data,        \* local data
    trace,       \* the calls the handler has made to its collaborators
    response,    \* what the handler returned or raised
    arg,         \* the shaping functions alone: their input
    ret          \* the shaping functions alone: their output

vars == <<pc, endpoint, file, file_bytes, image, text, data, trace, response,
          arg, ret>>

NoFile     == [filename |-> "", content_type |-> "", bytes |-> Garbage]
NoImage    == "none"
NoData     == Arrays(<<>>)
NoResponse == [status_code |-> 0]
NoArg      == [fn |-> "none", text |-> <<>>, data |-> NoData]
NoRet      == [ok |-> FALSE, error |-> "not called"]

Event(op, ok, img, config, first_page, last_page) ==
    [op |-> op, ok |-> ok, image |-> img, config |-> config,
     first_page |-> first_page, last_page |-> last_page]

Idle ==
    /\ pc         = [r \in Reqs |-> "idle"]
    /\ endpoint   = [r \in Reqs |-> "ocr"]
    /\ file       = [r \in Reqs |-> NoFile]
    /\ file_bytes = [r \in Reqs |-> Garbage]
    /\ image      = [r \in Reqs |-> NoImage]
    /\ text       = [r \in Reqs |-> <<>>]
    /\ data       = [r \in Reqs |-> NoData]
    /\ trace      = [r \in Reqs |-> <<>>]
    /\ response   = [r \in Reqs |-> NoResponse]

Init == Idle /\ arg = NoArg /\ ret = NoRet

\* ---------------------------------------------------------------- handlers
Log(r, ev) == trace' = [trace EXCEPT ![r] = Append(@, ev)]

ExceptAll(r, e) ==
    /\ response' = [o \in Reqs |->
          IF o = r \/ pc[o] \notin {"idle", "done"}
          THEN HTTPException(500, ErrorDetail(endpoint[o], e, file[o].filename, text[o]))
          ELSE response[o]]
    /\ pc' = [o \in Reqs |-> IF o = r \/ pc[o] \notin {"idle", "done"}
                             THEN "done" ELSE pc[o]]

ExceptSwallowed(r, e) ==
    /\ response' = response
    /\ pc' = [pc EXCEPT ![r] = "data"]

\* except Exception as e: raise HTTPException(status_code=500, detail=...)
Except(r, e) ==
    /\ response' = [response EXCEPT ![r] =
          HTTPException(500, ErrorDetail(endpoint[r], e, file[r].filename, text[r]))]
    /\ pc' = [pc EXCEPT ![r] = "done"]

\* The framework calls the handler of the route with the upload.
Receive(r) ==
    /\ pc[r] = "idle"
    /\ \E ep \in Endpoints, f \in Uploads :
         /\ endpoint' = [endpoint EXCEPT ![r] = ep]
         /\ file' = [file EXCEPT ![r] = f]
    /\ pc' = [pc EXCEPT ![r] = "read"]
    /\ UNCHANGED <<file_bytes, image, text, data, trace, response, arg, ret>>

\* file_bytes = await file.read()
ReadOk(r) ==
    /\ pc[r] = "read"
    /\ file_bytes' = [file_bytes EXCEPT ![r] = file[r].bytes]
    /\ Log(r, Event("read", TRUE, NoImage, "", 0, 0))
    /\ pc' = [pc EXCEPT ![r] = "decode"]
    /\ UNCHANGED <<endpoint, file, image, text, data, response, arg, ret>>

ReadRaises(r) ==
    /\ pc[r] = "read"
    /\ Log(r, Event("read", FALSE, NoImage, "", 0, 0))
    /\ Except(r, ReadError)
    /\ UNCHANGED <<endpoint, file, file_bytes, image, text, data, arg, ret>>

AfterDecodeNoText(r) == "data"

\* what follows the decoding: perform_ocr calls image_to_string and then
\* image_to_data, ocr_with_layout calls image_to_data alone
AfterDecode(r) == IF endpoint[r] = "ocr" THEN "string" ELSE "data"

IsPdfNever(content_type) == FALSE

\* file.content_type == "application/pdf"
IsPdf(content_type) == content_type = PdfContentType

\* images[0]
PickImage(images) == images[1]

\* the PDF branch: convert_from_bytes(...), image = images[0]
DecodePdf(r) ==
    /\ pc[r] = "decode"
    /\ IsPdf(file[r].content_type)
    /\ LET got  == ConvertFromBytes(file_bytes[r], FirstPage, LastPage)
           call == Event("convert_from_bytes", got.ok, NoImage, "",
                         FirstPage, LastPage)
       IN  IF ~got.ok
           THEN /\ Log(r, call)
                /\ Except(r, got.error)
                /\ UNCHANGED image
           ELSE IF got.images = <<>>
           THEN /\ trace' = [trace EXCEPT ![r] =
                       @ \o <<call, Event("images[0]", FALSE, NoImage, "", 0, 0)>>]
                /\ Except(r, IndexError.error)
                /\ UNCHANGED image
           ELSE /\ trace' = [trace EXCEPT ![r] =
                       @ \o <<call, Event("images[0]", TRUE, NoImage, "", 0, 0)>>]
                /\ image' = [image EXCEPT ![r] = PickImage(got.images)]
                /\ pc' = [pc EXCEPT ![r] = AfterDecode(r)]
                /\ UNCHANGED response
    /\ UNCHANGED <<endpoint, file, file_bytes, text, data, arg, ret>>

\* the else branch: image = Image.open(io.BytesIO(file_bytes))
DecodeImage(r) ==
    /\ pc[r] = "decode"
    /\ ~IsPdf(file[r].content_type)
    /\ LET got == ImageOpen(file_bytes[r])
       IN  /\ Log(r, Event("Image.open", got.ok, NoImage, "", 0, 0))
           /\ IF got.ok
              THEN /\ image' = [image EXCEPT ![r] = got.image]
                   /\ pc' = [pc EXCEPT ![r] = AfterDecode(r)]
                   /\ UNCHANGED response
              ELSE Except(r, got.error) /\ UNCHANGED image
    /\ UNCHANGED <<endpoint, file, file_bytes, text, data, arg, ret>>

\* text = pytesseract.image_to_string(image, config='--psm 1')
CallStringOk(r) ==
    /\ pc[r] = "string"
    /\ \E t \in TextCatalogue : text' = [text EXCEPT ![r] = t]
    /\ Log(r, Event("image_to_string", TRUE, image[r], PsmConfig, 0, 0))
    /\ pc' = [pc EXCEPT ![r] = "data"]
    /\ UNCHANGED <<endpoint, file, file_bytes, image, data, response, arg, ret>>

CallStringRaises(r) ==
    /\ pc[r] = "string"
    /\ Log(r, Event("image_to_string", FALSE, image[r], PsmConfig, 0, 0))
    /\ Except(r, EngineError)
    /\ UNCHANGED <<endpoint, file, file_bytes, image, text, data, arg, ret>>

\* data = pytesseract.image_to_data(image, output_type=DICT, config='--psm 1')
CallDataOk(r) ==
    /\ pc[r] = "data"
    /\ \E d \in DataCatalogue : data' = [data EXCEPT ![r] = d]
    /\ Log(r, Event("image_to_data", TRUE, image[r], PsmConfig, 0, 0))
    /\ pc' = [pc EXCEPT ![r] = "shape"]
    /\ UNCHANGED <<endpoint, file, file_bytes, image, text, response, arg, ret>>

CallDataRaises(r) ==
    /\ pc[r] = "data"
    /\ Log(r, Event("image_to_data", FALSE, image[r], PsmConfig, 0, 0))
    /\ Except(r, EngineError)
    /\ UNCHANGED <<endpoint, file, file_bytes, image, text, data, arg, ret>>

\* perform_ocr from the confidence average to return JSONResponse({...})
ShapeOcr(r) ==
    /\ pc[r] = "shape"
    /\ endpoint[r] = "ocr"
    /\ LET out == ShapeAggregate(text[r], data[r], image[r])
       IN  response' = [response EXCEPT ![r] = JSONResponse(out.content)]
    /\ Log(r, Event("shape", TRUE, NoImage, "", 0, 0))
    /\ pc' = [pc EXCEPT ![r] = "done"]
    /\ UNCHANGED <<endpoint, file, file_bytes, image, text, data, arg, ret>>

\* ocr_with_layout from results = [] to return JSONResponse({...})
ShapeLayoutStep(r) ==
    /\ pc[r] = "shape"
    /\ endpoint[r] = "layout"
    /\ LET out == ShapeLayout(data[r])
       IN  /\ Log(r, Event("shape", out.ok, NoImage, "", 0, 0))
           /\ IF out.ok
              THEN /\ response' = [response EXCEPT ![r] = JSONResponse(out.content)]
                   /\ pc' = [pc EXCEPT ![r] = "done"]
              ELSE Except(r, out.error)
    /\ UNCHANGED <<endpoint, file, file_bytes, image, text, data, arg, ret>>

\* The response is sent and the handler's locals are gone.
Deliver(r) ==
    /\ pc[r] = "done"
    /\ pc'         = [pc EXCEPT ![r] = "idle"]
    /\ endpoint'   = [endpoint EXCEPT ![r] = "ocr"]
    /\ file'       = [file EXCEPT ![r] = NoFile]
    /\ file_bytes' = [file_bytes EXCEPT ![r] = Garbage]
    /\ image'      = [image EXCEPT ![r] = NoImage]
    /\ text'       = [text EXCEPT ![r] = <<>>]
    /\ data'       = [data EXCEPT ![r] = NoData]
    /\ trace'      = [trace EXCEPT ![r] = <<>>]
    /\ response'   = [response EXCEPT ![r] = NoResponse]
    /\ UNCHANGED <<arg, ret>>

Next ==
    \E r \in Reqs :
        \/ Receive(r)
        \/ ReadOk(r)
        \/ ReadRaises(r)
        \/ DecodePdf(r)
        \/ DecodeImage(r)
        \/ CallStringOk(r)
        \/ CallStringRaises(r)
        \/ CallDataOk(r)
        \/ CallDataRaises(r)
        \/ ShapeOcr(r)
        \/ ShapeLayoutStep(r)
        \/ Deliver(r)

Spec == Init /\ [][Next]_vars

\* ------------------------------------------------- the shaping steps alone
\* The inputs the shaping code of the two handlers is run on: every
\* structured result of at most MaxTokens tokens (with lists of one length,
\* or one list a cell short), every confidence list of at most MaxConfs
\* values, every text of at most MaxChars characters.
ConfValues == {Sentinel, 0, 95}

TextChars == {"a", " ", "7", "$", "U+00B2", "\n"}

LayoutInputs ==
    {Short(Arrays(toks), which) :
        toks \in SeqsUpTo(TokenKinds, MaxTokens),
        which \in {"none", "text", "conf", "left"}}

ConfInputs == {[NoData EXCEPT !.conf = c] : c \in SeqsUpTo(ConfValues, MaxConfs)}

TextInputs == SeqsUpTo(TextChars, MaxChars)

InitShape ==
    /\ Idle
    /\ ret = NoRet
    /\ \/ \E d \in LayoutInputs : arg = [fn |-> "layout", text |-> <<>>, data |-> d]
       \/ \E d \in ConfInputs : arg = [fn |-> "aggregate", text |-> <<"a">>, data |-> d]
       \/ \E t \in TextInputs :
            arg = [fn |-> "aggregate", text |-> t, data |-> Arrays(<<TokWord>>)]

\* ocr_with_layout, lines 142-165, on arg.data
ApplyLayout ==
    /\ arg.fn = "layout"
    /\ ret = NoRet
    /\ ret' = ShapeLayout(arg.data)
    /\ UNCHANGED <<pc, endpoint, file, file_bytes, image, text, data, trace,
                   response, arg>>

\* perform_ocr, lines 78-105, on arg.text and arg.data
ApplyAggregate ==
    /\ arg.fn = "aggregate"
    /\ ret = NoRet
    /\ ret' = ShapeAggregate(arg.text, arg.data, "imgA")
    /\ UNCHANGED <<pc, endpoint, file, file_bytes, image, text, data, trace,
                   response, arg>>

NextShape == ApplyLayout \/ ApplyAggregate

SpecShape == InitShape /\ [][NextShape]_vars

\* ================================================================== claims
LayoutDone == arg.fn = "layout" /\ ret # NoRet
AggDone    == arg.fn = "aggregate" /\ ret # NoRet

NonBlank(t) == \E j \in DOMAIN t : t[j] \notin Whitespace

\* the indices of the tokens the claim says are listed
KeptIdx(d) ==
    {i \in 1..Len(d.text) : d.conf[i] # -1 /\ NonBlank(d.text[i])}

\* the k-th smallest of them
NthKept(d, k) ==
    CHOOSE i \in KeptIdx(d) : Cardinality({j \in KeptIdx(d) : j <= i}) = k

\* C1: the results of /ocr-with-layout are exactly the tokens whose
\* confidence is not -1 and whose text is not blank after trimming, in
\* increasing index order; total_words is their number; no token of
\* confidence -1 and no whitespace-only token is among them.
C1_LayoutFilter ==
    (LayoutDone /\ ret.ok) =>
        LET d   == arg.data
            res == ret.content.results
        IN  /\ Len(res) = Cardinality(KeptIdx(d))
            /\ ret.content.total_words = Len(res)
            /\ \A k \in 1..Len(res) :
                 /\ res[k].text = d.text[NthKept(d, k)]
                 /\ res[k].confidence = d.conf[NthKept(d, k)]
                 /\ res[k].confidence # -1
                 /\ NonBlank(res[k].text)

C1_Witness ==
    /\ LayoutDone /\ ret.ok
    /\ Len(ret.content.results) >= 1
    /\ \E i \in 1..Len(arg.data.text) : arg.data.conf[i] = -1
    /\ \E i \in 1..Len(arg.data.text) :
         arg.data.conf[i] # -1 /\ ~NonBlank(arg.data.text[i])

\* the non-sentinel positions of a confidence list, and their sum
RealIdx(conf) == {i \in DOMAIN conf : conf[i] # -1}

RECURSIVE SumAt(_, _)
SumAt(conf, S) ==
    IF S = {} THEN 0
    ELSE LET i == CHOOSE x \in S : TRUE IN conf[i] + SumAt(conf, S \ {i})

Abs(x) == IF x < 0 THEN -x ELSE x

\* C2: the confidence of /ocr is the mean (to two decimals) of the values
\* other than -1, a 0 counted in sum and denominator; it is 0 when there is
\* none; the shaping never fails (no division by zero).
C2_MeanOfReal ==
    AggDone =>
        LET conf == arg.data.conf
            n    == Cardinality(RealIdx(conf))
            s    == SumAt(conf, RealIdx(conf))
            r    == ret.content.confidence
        IN  /\ ret.ok
            /\ n = 0 => r = 0
            /\ n > 0 => 2 * Abs(r * n - 100 * s) <= n

C2_Witness ==
    /\ AggDone /\ ret.ok
    /\ \E i \in DOMAIN arg.data.conf : arg.data.conf[i] = -1
    /\ \E i \in DOMAIN arg.data.conf : arg.data.conf[i] = 0
    /\ \E i \in DOMAIN arg.data.conf : arg.data.conf[i] > 0
    /\ ret.content.confidence > 0

\* C6 as stated: has_numbers is true iff the text contains one of the ten
\* characters '0'..'9'.
C6_AsciiDigitsOnly ==
    AggDone =>
        (ret.content.metadata.has_numbers
            <=> \E i \in DOMAIN arg.text : arg.text[i] \in AsciiDigits)

\* C6 amended: has_numbers is true iff the text contains a character that
\* str.isdigit() accepts, one of '0'..'9' or another Unicode digit; so it is
\* true of every text with one of '0'..'9'.
C6_UnicodeDigits ==
    AggDone =>
        /\ ret.content.metadata.has_numbers
             <=> \E i \in DOMAIN arg.text : arg.text[i] \in AsciiDigits \cup OtherDigits
        /\ (\E i \in DOMAIN arg.text : arg.text[i] \in AsciiDigits)
             => ret.content.metadata.has_numbers

C6_Witness ==
    /\ AggDone
    /\ ret.content.metadata.has_numbers
    /\ \E i \in DOMAIN arg.text : arg.text[i] = "U+00B2"
    /\ \A i \in DOMAIN arg.text : arg.text[i] \notin AsciiDigits

\* C8 as stated: confidence * 100 is the floor of 100 * sum / count.
C8_Truncated ==
    AggDone =>
        LET conf == arg.data.conf
            n    == Cardinality(RealIdx(conf))
            s    == SumAt(conf, RealIdx(conf))
        IN  n > 0 => ret.content.confidence = (100 * s) \div n

\* C8 amended: confidence * 100 is the integer nearest to 100 * sum / count:
\* the floor when the rest is below a half, the floor plus one when it is
\* above, and the even one of the two at an exact half (a mean that binary
\* floating point holds exactly).
C8_Rounded ==
    AggDone =>
        LET conf == arg.data.conf
            n    == Cardinality(RealIdx(conf))
            s    == SumAt(conf, RealIdx(conf))
            fl   == (100 * s) \div n
            rem  == (100 * s) % n
            r    == ret.content.confidence
        IN  n > 0 =>
              /\ 2 * rem < n => r = fl
              /\ 2 * rem > n => r = fl + 1
              /\ 2 * rem = n => r \in {fl, fl + 1} /\ r % 2 = 0

C8_Witness ==
    /\ AggDone
    /\ LET conf == arg.data.conf
           n    == Cardinality(RealIdx(conf))
           s    == SumAt(conf, RealIdx(conf))
       IN  /\ n > 0
           /\ 2 * ((100 * s) % n) > n
           /\ ret.content.confidence = ((100 * s) \div n) + 1

\* C9: every entry of results is built from one index i of the parallel
\* lists, with the untrimmed text[i]; the loop runs over the length of the
\* text list (so it fails only on a list shorter than the text list).
C9_SingleIndex ==
    LayoutDone =>
        LET d == arg.data
        IN  /\ ret.ok =>
                /\ ret.iterated = Len(d.text)
                /\ \A k \in 1..Len(ret.content.results) :
                     \E i \in 1..Len(d.text) :
                        ret.content.results[k] =
                          [text |-> d.text[i], confidence |-> d.conf[i],
                           bbox |-> [left |-> d.left[i], top |-> d.top[i],
                                     width |-> d.width[i], height |-> d.height[i]],
                           level |-> d.level[i]]
            /\ ~ret.ok => (Len(d.conf) < Len(d.text) \/ Len(d.left) < Len(d.text))

C9_Witness ==
    /\ LayoutDone /\ ret.ok
    /\ Len(arg.data.text) < Len(arg.data.conf)
    /\ \E k \in 1..Len(ret.content.results) :
         /\ ret.content.results[k].text = <<" ", "a", " ">>
         /\ ret.content.results[k].bbox.left = 11

\* ------------------------------------------------------- claims on requests
Done(r)    == pc[r] = "done"
Success(r) == response[r].status_code = 200
Failed(r)  == response[r].status_code = 500
AllOk(r)   == \A i \in DOMAIN trace[r] : trace[r][i].ok

EngineOps == {"image_to_string", "image_to_data"}
DecodeOps == {"convert_from_bytes", "Image.open"}

IsEngineCall(ev) == ev.op \in EngineOps
IsDecodeCall(ev) == ev.op \in DecodeOps

EngineCalls(r) == SelectSeq(trace[r], IsEngineCall)
DecodeCalls(r) == SelectSeq(trace[r], IsDecodeCall)

Ops(s) == [i \in DOMAIN s |-> s[i].op]

\* C3: a finished request has a success body with the complete output, or a
\* 500 whose detail carries the error (and for /ocr the method and the file
\* name) and nothing else; a failure at any step gives the 500.
C3_SuccessOrError ==
    \A r \in Reqs :
        Done(r) =>
            /\ Success(r) \/ Failed(r)
            /\ Success(r) =>
                 /\ AllOk(r)
                 /\ trace[r][Len(trace[r])].op = "shape"
                 /\ response[r].content.success = TRUE
                 /\ IF endpoint[r] = "ocr"
                    THEN /\ DOMAIN response[r].content =
                              {"success", "text", "confidence", "method", "metadata"}
                         /\ response[r].content.text = text[r]
                    ELSE /\ DOMAIN response[r].content =
                              {"success", "results", "method", "total_words"}
                         /\ response[r].content.total_words =
                              Len(response[r].content.results)
            /\ Failed(r) =>
                 /\ ~AllOk(r)
                 /\ IF endpoint[r] = "ocr"
                    THEN /\ DOMAIN response[r].detail = {"error", "method", "file"}
                         /\ response[r].detail.method = "tesseract"
                         /\ response[r].detail.file = file[r].filename
                    ELSE DOMAIN response[r].detail = {"error"}
            /\ ~AllOk(r) => Failed(r)

\* a request that had its text recognized and then failed
C3_Witness ==
    \E r \in Reqs :
        /\ Done(r) /\ Failed(r) /\ endpoint[r] = "ocr"
        /\ text[r] # <<>>
        /\ trace[r][Len(trace[r])].op = "image_to_data"

Local(r) ==
    <<pc[r], endpoint[r], file[r], file_bytes[r], image[r], text[r], data[r],
      trace[r], response[r]>>

\* C4: a step of one request changes nothing of another; two finished
\* requests with the same upload, route and collaborator answers have the
\* same response; a request whose own steps all succeeded has succeeded,
\* whatever happened to the other.
C4_Isolation ==
    /\ [][\E r \in Reqs : \A o \in Reqs \ {r} : Local(o)' = Local(o)]_vars
    /\ [](\A r, o \in Reqs :
            (/\ Done(r) /\ Done(o)
             /\ endpoint[r] = endpoint[o] /\ file[r] = file[o]
             /\ trace[r] = trace[o] /\ text[r] = text[o] /\ data[r] = data[o])
            => response[r] = response[o])
    /\ [](\A r \in Reqs : (Done(r) /\ AllOk(r)) => Success(r))

\* one request failed on undecodable bytes, the other succeeded
C4_Witness ==
    \E r, o \in Reqs :
        /\ Done(r) /\ Failed(r) /\ file[r].bytes = Garbage
        /\ trace[r][Len(trace[r])].op = "Image.open"
        /\ Done(o) /\ Success(o)

\* C5 as stated: every request that succeeds has invoked the engine exactly
\* twice, once for plain text and once for structured data.
C5_AlwaysTwice ==
    \A r \in Reqs :
        (Done(r) /\ Success(r)) =>
            Ops(EngineCalls(r)) = <<"image_to_string", "image_to_data">>

\* C5 amended: /ocr invokes the engine twice (plain text, then structured
\* data), /ocr-with-layout once (structured data); every invocation has the
\* configuration '--psm 1'; none is repeated; a failed invocation is the last
\* thing the handler does and the request fails.
C5_CallsPerRoute ==
    \A r \in Reqs :
        LET calls == EngineCalls(r)
        IN  /\ \A i \in DOMAIN calls : calls[i].config = "--psm 1"
            /\ \A i, j \in DOMAIN calls : calls[i].op = calls[j].op => i = j
            /\ \A i \in DOMAIN trace[r] :
                 (IsEngineCall(trace[r][i]) /\ ~trace[r][i].ok) =>
                     i = Len(trace[r]) /\ Done(r) /\ Failed(r)
            /\ (Done(r) /\ Success(r) /\ endpoint[r] = "ocr") =>
                 Ops(calls) = <<"image_to_string", "image_to_data">>
            /\ (Done(r) /\ Success(r) /\ endpoint[r] = "layout") =>
                 Ops(calls) = <<"image_to_data">>

C5_Witness ==
    \E r, o \in Reqs :
        /\ Done(r) /\ Success(r) /\ endpoint[r] = "ocr"
        /\ Len(EngineCalls(r)) = 2
        /\ Done(o) /\ Success(o) /\ endpoint[o] = "layout"
        /\ Len(EngineCalls(o)) = 1

\* C7: an upload declared application/pdf goes to the rasterizer, asked for
\* page 1 to page 1, and the image recognized is the first page; one with no
\* page fails; an upload declared anything else goes to the image decoder
\* and never to the rasterizer.
C7_PdfFirstPage ==
    \A r \in Reqs :
        LET dec   == DecodeCalls(r)
            isPdf == file[r].content_type = "application/pdf"
        IN  /\ Len(dec) <= 1
            /\ pc[r] \in {"string", "data", "shape"} => Len(dec) = 1
            /\ \A i \in DOMAIN dec :
                 IF isPdf
                 THEN /\ dec[i].op = "convert_from_bytes"
                      /\ dec[i].first_page = 1 /\ dec[i].last_page = 1
                 ELSE dec[i].op = "Image.open"
            /\ \A i \in DOMAIN EngineCalls(r) :
                 /\ EngineCalls(r)[i].image = image[r]
                 /\ isPdf => /\ file[r].bytes.format = "pdf"
                             /\ image[r] = Head(file[r].bytes.pages)
                 /\ ~isPdf => /\ file[r].bytes.format = "png"
                              /\ image[r] = Head(file[r].bytes.pages)
            /\ (Done(r) /\ isPdf /\ file[r].bytes.pages = <<>>) =>
                 Failed(r) /\ EngineCalls(r) = <<>>

\* a two-page PDF, recognized from its first page
C7_Witness ==
    \E r \in Reqs :
        /\ Done(r) /\ Success(r)
        /\ file[r].content_type = "application/pdf"
        /\ file[r].bytes = Pdf(<<"imgB", "imgA">>)
        /\ \A i \in DOMAIN EngineCalls(r) : EngineCalls(r)[i].image = "imgB"
        /\ EngineCalls(r) # <<>>

\* C10: read, decode, engine, shaping, response, in this order: the engine
\* is invoked only after a decode that succeeded, on /ocr the structured
\* call comes right after a plain-text call that succeeded, the shaping
\* after a structured call that succeeded, the response after all of it;
\* a step that fails is the last one.
C10_StepOrder ==
    \A r \in Reqs :
        LET t == trace[r]
        IN  /\ \A i \in DOMAIN t :
                 /\ i < Len(t) => t[i].ok
                 /\ i = 1 <=> t[i].op = "read"
                 /\ IsDecodeCall(t[i]) => i = 2
                 /\ IsEngineCall(t[i]) =>
                      \E j \in 1..(i - 1) : IsDecodeCall(t[j]) /\ t[j].ok
                 /\ t[i].op = "image_to_string" =>
                      endpoint[r] = "ocr" /\ ~IsEngineCall(t[i - 1])
                 /\ (t[i].op = "image_to_data" /\ endpoint[r] = "ocr") =>
                      t[i - 1].op = "image_to_string" /\ t[i - 1].ok
                 /\ t[i].op = "shape" =>
                      t[i - 1].op = "image_to_data" /\ t[i - 1].ok /\ i = Len(t)
            /\ response[r] # NoResponse <=> Done(r)
            /\ Done(r) => (t # <<>> /\ (t[Len(t)].op = "shape" \/ ~t[Len(t)].ok))

\* the plain-text call failed and the structured call was never made
C10_Witness ==
    \E r \in Reqs :
        /\ Done(r) /\ endpoint[r] = "ocr"
        /\ Ops(EngineCalls(r)) = <<"image_to_string">>
        /\ ~trace[r][Len(trace[r])].ok

====
